---- MODULE Spec2Model ----
(***************************************************************************)
(* The four chart scripts of                                               *)
(*   content/articles/{2021,2022}/insights-from-analyzing-over-1-mio-java- *)
(*   class-names/                                                          *)
(* Each script is a straight-line module body: it creates a pyplot figure, *)
(* binds the literal dataset y, derives x = np.arange(1, len(y)+1, 1),     *)
(* draws the bars, sets title, labels and ticks, and saves an SVG.  A run  *)
(* is one interpreter process; any statement may raise, and nothing        *)
(* catches.  Runs follow one another in the same working directory, so the *)
(* files written by earlier runs persist.                                  *)
(*                                                                         *)
(* Non-integer literals are kept in tenths: figsize (5.5, 4) is <<55, 40>>,*)
(* width 0.9 is 9.                                                         *)
(***************************************************************************)
EXTENDS Integers, Sequences, FiniteSets

\* How many runs (process launches) a behaviour may contain.
MaxRuns == 3

CharClass == "numberOfCharacterInClassNames"
Subpackages == "numberOfSubpackagesInClassNames"
Words == "numberOfWordsInClassNames"
CharPackage == "numberOfCharactersInPackageNames"

Scripts == {CharClass, Subpackages, Words, CharPackage}

\* Mutant of Program: the save moved before the layout call.
ProgramSaveEarly ==
    <<"figure", "y", "x", "bar", "title", "xlabel", "ylabel", "xticks",
      "savefig", "tight_layout">>

\* The statements of a module body, in source order (lines 4, 6, 7, 9..15).
Program ==
    <<"figure", "y", "x", "bar", "title", "xlabel", "ylabel", "xticks",
      "tight_layout", "savefig">>

\* plt.figure(figsize=...), in tenths of an inch.
Figsize(s) == IF s = CharClass THEN <<55, 40>> ELSE <<50, 35>>

\* The literal dataset of each script (line 6).
Y(s) ==
    CASE s = CharClass ->
        <<1572, 1842, 6128, 14646, 14679, 19432, 25300, 37904, 42768, 48477,
          56381, 62224, 65604, 67791, 76213, 69267, 68672, 67184, 65101,
          59709, 56416, 53112, 47407, 43028, 38674, 34133, 30572, 27036,
          23386, 20370, 17620, 15161, 13273, 11302, 9851, 8186, 7058, 5995,
          5037, 4494, 3922, 3216, 3013, 2371, 2020, 1764, 1517, 1309, 1103,
          1010, 817, 698, 622, 454, 433, 358, 290, 282, 223, 166, 161, 124>>
      [] s = Subpackages ->
        <<13504, 25659, 4542, 1474, 26158, 14924, 9174, 2318, 926, 254, 83,
          82>>
      [] s = Words ->
        <<91546, 335482, 385497, 259854, 138018, 67312, 30646, 13791, 5859,
          2579, 1240, 641, 287>>
      [] s = CharPackage ->
        <<7, 111, 275, 393, 114, 330, 262, 294, 853, 678, 609, 669, 632,
          1921, 1166, 1248, 1793, 1934, 3535, 2161, 3168, 2671, 3172, 5296,
          2954, 2642, 3127, 2924, 3218, 3937, 2510, 3272, 3188, 2508, 2585,
          2512, 3348, 2899, 1772, 1889, 1602, 1990, 1279, 1514, 1497, 760,
          1118, 2335, 1262, 617, 761, 386, 480, 383, 316, 482, 338, 373,
          236, 201, 239, 157, 130, 194, 142, 230, 121, 166, 109, 160>>

BarColor == "#061332"

\* width=0.9, in tenths.
BarWidth == 9

TitleText(s) ==
    CASE s = CharClass -> "Number of Characters in Class Names"
      [] s = Subpackages -> "Number of Subpackages in Class Names"
      [] s = Words -> "Number of Words in Class Names"
      [] s = CharPackage -> "Number of Characters in Package Names"

XLabelText(s) ==
    CASE s = CharClass -> "Class name length"
      [] s = Subpackages -> "Subpackages in class names"
      [] s = Words -> "Words in class names"
      [] s = CharPackage -> "Package name length"

YLabelText(s) == "Occurrences"

\* Mutant of Stride: the strides of the two character-count scripts swapped.
StrideSwapped(s) ==
    CASE s = CharClass -> 5
      [] s = Subpackages -> 1
      [] s = Words -> 1
      [] s = CharPackage -> 3

\* The third argument of the np.arange of line 13.
Stride(s) ==
    CASE s = CharClass -> 3
      [] s = Subpackages -> 1
      [] s = Words -> 1
      [] s = CharPackage -> 5

\* Mutant of TickStop: every script uses len(x) + 1.
TickStopUniform(s, n) == n + 1

\* Mutant of TickStop: the range runs one past the axis.
TickStopPlusTwo(s, n) == n + 2

\* The second argument of the np.arange of line 13, n being len(x).
TickStop(s, n) == IF s = CharClass THEN n - 1 ELSE n + 1

\* rotation= of line 13, in degrees.
Rotation(s) == IF s = CharClass THEN 45 ELSE 0

\* Mutant of FileName: the words script kept the name it was copied from.
FileNameCopied(s) ==
    CASE s = CharClass -> "numberOfCharacterInClassNames.svg"
      [] s = Subpackages -> "numberOfSubpackagesInClassNames.svg"
      [] s = Words -> "numberOfSubpackagesInClassNames.svg"
      [] s = CharPackage -> "numberOfCharactersInPackageNames.svg"

\* The argument of plt.savefig (line 15).
FileName(s) ==
    CASE s = CharClass -> "numberOfCharacterInClassNames.svg"
      [] s = Subpackages -> "numberOfSubpackagesInClassNames.svg"
      [] s = Words -> "numberOfWordsInClassNames.svg"
      [] s = CharPackage -> "numberOfCharactersInPackageNames.svg"

FileNames == {FileName(s) : s \in Scripts}

\* np.arange(start, stop, step) for integers and step > 0: start, start+step,
\* ... below stop; empty when stop <= start.
ARange(start, stop, step) ==
    LET n == IF stop > start THEN (stop - start + step - 1) \div step ELSE 0
    IN  [i \in 1..n |-> start + (i - 1) * step]

\* Mutant of Bars: the last position is left out.
BarsDropLast(xs, ys) ==
    [i \in 1..(Len(xs) - 1) |->
        [pos |-> xs[i], height |-> ys[i], color |-> "#061332", width |-> 9]]

\* The rectangles plt.bar(x, y, color=, width=) adds: one per position.
Bars(xs, ys) ==
    [i \in 1..Len(xs) |->
        [pos |-> xs[i], height |-> ys[i], color |-> BarColor, width |-> BarWidth]]

VARIABLES
    script,        \* the script the current process runs, "none" before any
    pc,            \* "idle", the next statement of Program, "done" or "failed"
    y,             \* the script's variable y (<<>> while unbound)
    x,             \* the script's variable x (<<>> while unbound)
    fig,           \* pyplot's current figure
    tickRange,     \* the arguments of the np.arange of line 13
    files,         \* the working directory: file name -> file
    exit,          \* the process's exit status, NoExit while it runs
    trace,         \* the statements this run completed, in order
    failedAt,      \* the statement that raised, "none" if none did
    saveAttempts,  \* calls of plt.savefig in this run
    writes,        \* names of the files this run wrote completely
    rendered,      \* script -> what its successful runs drew and where
    completed,     \* script -> number of its successful runs
    nruns          \* processes launched so far

vars ==
    <<script, pc, y, x, fig, tickRange, files, exit, trace, failedAt,
      saveAttempts, writes, rendered, completed, nruns>>

NoExit == -1

NoFig ==
    [figsize |-> <<0, 0>>, bars |-> <<>>, title |-> "", xlabel |-> "",
     ylabel |-> "", ticks |-> <<>>, rotation |-> 0, tight |-> FALSE]

NoRange == [start |-> 0, stop |-> 0, step |-> 0]

NoFile == [by |-> "none", complete |-> FALSE, image |-> NoFig]

\* What an interrupted save may leave behind.
PartialFile(s) == [by |-> s, complete |-> FALSE, image |-> NoFig]

Terminal == {"idle", "done", "failed"}

RECURSIVE IndexOf(_, _, _)
IndexOf(seq, e, i) ==
    IF i > Len(seq) THEN 0
    ELSE IF seq[i] = e THEN i ELSE IndexOf(seq, e, i + 1)

\* The statement after `step`, "done" after the last one.
Succ(step) ==
    LET i == IndexOf(Program, step, 1)
    IN  IF i = Len(Program) THEN "done" ELSE Program[i + 1]

Init ==
    /\ script = "none"
    /\ pc = "idle"
    /\ y = <<>>
    /\ x = <<>>
    /\ fig = NoFig
    /\ tickRange = NoRange
    /\ files = [f \in FileNames |-> NoFile]
    /\ exit = NoExit
    /\ trace = <<>>
    /\ failedAt = "none"
    /\ saveAttempts = 0
    /\ writes = <<>>
    /\ rendered = [s \in Scripts |-> {}]
    /\ completed = [s \in Scripts |-> 0]
    /\ nruns = 0

\* `python <s>.py`: a fresh process; the imports of lines 1-2 bring up a
\* pyplot with no figure.  The working directory is what earlier runs left.
Start(s) ==
    /\ pc \in Terminal
    /\ nruns < MaxRuns
    /\ script' = s
    /\ pc' = Program[1]
    /\ y' = <<>>
    /\ x' = <<>>
    /\ fig' = NoFig
    /\ tickRange' = NoRange
    /\ exit' = NoExit
    /\ trace' = <<>>
    /\ failedAt' = "none"
    /\ saveAttempts' = 0
    /\ writes' = <<>>
    /\ nruns' = nruns + 1
    /\ UNCHANGED <<files, rendered, completed>>

\* The statement `step` returned: control moves to the next one, and falling
\* off the end of the module body exits the process with status 0.
Advance(step) ==
    /\ pc' = Succ(step)
    /\ trace' = Append(trace, step)
    /\ exit' = IF Succ(step) = "done" THEN 0 ELSE exit
    /\ UNCHANGED <<script, failedAt, nruns>>

\* line 4
PltFigure ==
    /\ pc = "figure"
    /\ fig' = [NoFig EXCEPT !.figsize = Figsize(script)]
    /\ Advance("figure")
    /\ UNCHANGED <<y, x, tickRange, files, saveAttempts, writes, rendered, completed>>

\* line 6
AssignY ==
    /\ pc = "y"
    /\ y' = Y(script)
    /\ Advance("y")
    /\ UNCHANGED <<x, fig, tickRange, files, saveAttempts, writes, rendered, completed>>

\* Mutant of AssignX: a 0-based index, np.arange(0, len(y), 1).
AssignXZeroBased ==
    /\ pc = "x"
    /\ x' = ARange(0, Len(y), 1)
    /\ Advance("x")
    /\ UNCHANGED <<y, fig, tickRange, files, saveAttempts, writes, rendered, completed>>

\* line 7
AssignX ==
    /\ pc = "x"
    /\ x' = ARange(1, Len(y) + 1, 1)
    /\ Advance("x")
    /\ UNCHANGED <<y, fig, tickRange, files, saveAttempts, writes, rendered, completed>>

\* line 9; x and y of different lengths make plt.bar raise (see Raise).
PltBar ==
    /\ pc = "bar"
    /\ Len(x) = Len(y)
    /\ fig' = [fig EXCEPT !.bars = @ \o Bars(x, y)]
    /\ Advance("bar")
    /\ UNCHANGED <<y, x, tickRange, files, saveAttempts, writes, rendered, completed>>

\* line 10
PltTitle ==
    /\ pc = "title"
    /\ fig' = [fig EXCEPT !.title = TitleText(script)]
    /\ Advance("title")
    /\ UNCHANGED <<y, x, tickRange, files, saveAttempts, writes, rendered, completed>>

\* Mutant of PltXlabel: the text goes to the y axis (plt.ylabel for plt.xlabel).
PltXlabelOnYAxis ==
    /\ pc = "xlabel"
    /\ fig' = [fig EXCEPT !.ylabel = XLabelText(script)]
    /\ Advance("xlabel")
    /\ UNCHANGED <<y, x, tickRange, files, saveAttempts, writes, rendered, completed>>

\* line 11
PltXlabel ==
    /\ pc = "xlabel"
    /\ fig' = [fig EXCEPT !.xlabel = XLabelText(script)]
    /\ Advance("xlabel")
    /\ UNCHANGED <<y, x, tickRange, files, saveAttempts, writes, rendered, completed>>

\* line 12
PltYlabel ==
    /\ pc = "ylabel"
    /\ fig' = [fig EXCEPT !.ylabel = YLabelText(script)]
    /\ Advance("ylabel")
    /\ UNCHANGED <<y, x, tickRange, files, saveAttempts, writes, rendered, completed>>

\* Mutant of PltXticks: the stride is an input of the run (the run's number
\* stands for a command-line argument) instead of the literal.
PltXticksFromArgument ==
    /\ pc = "xticks"
    /\ tickRange' = [start |-> 1, stop |-> TickStop(script, Len(x)), step |-> nruns]
    /\ fig' = [fig EXCEPT
                 !.ticks = ARange(1, TickStop(script, Len(x)), nruns),
                 !.rotation = Rotation(script)]
    /\ Advance("xticks")
    /\ UNCHANGED <<y, x, files, saveAttempts, writes, rendered, completed>>

\* line 13
PltXticks ==
    /\ pc = "xticks"
    /\ tickRange' =
         [start |-> 1, stop |-> TickStop(script, Len(x)), step |-> Stride(script)]
    /\ fig' = [fig EXCEPT
                 !.ticks = ARange(1, TickStop(script, Len(x)), Stride(script)),
                 !.rotation = Rotation(script)]
    /\ Advance("xticks")
    /\ UNCHANGED <<y, x, files, saveAttempts, writes, rendered, completed>>

\* line 14
PltTightLayout ==
    /\ pc = "tight_layout"
    /\ fig' = [fig EXCEPT !.tight = TRUE]
    /\ Advance("tight_layout")
    /\ UNCHANGED <<y, x, tickRange, files, saveAttempts, writes, rendered, completed>>

\* line 15: the figure as it stands is written to the file, replacing
\* whatever had that name.
PltSavefig ==
    /\ pc = "savefig"
    /\ saveAttempts' = saveAttempts + 1
    /\ files' = [files EXCEPT ![FileName(script)] =
                   [by |-> script, complete |-> TRUE, image |-> fig]]
    /\ writes' = Append(writes, FileName(script))
    /\ rendered' = [rendered EXCEPT ![script] =
                      @ \cup {[calls |-> Append(trace, "savefig"), image |-> fig,
                               file |-> FileName(script)]}]
    /\ completed' = [completed EXCEPT ![script] = @ + 1]
    /\ Advance("savefig")
    /\ UNCHANGED <<y, x, fig, tickRange>>

\* Mutant of Raise: the exception is swallowed (try: ... except: pass) and the
\* script goes on with the next statement.
RaiseSwallowed ==
    /\ pc \notin Terminal
    /\ pc # "savefig"
    /\ failedAt' = pc
    /\ pc' = Succ(pc)
    /\ UNCHANGED <<script, y, x, fig, tickRange, files, exit, trace, saveAttempts,
                   writes, rendered, completed, nruns>>

\* A statement other than the save raises.  The module body has no
\* try/except: the exception reaches the top level and the interpreter
\* exits with status 1.
Raise ==
    /\ pc \notin Terminal
    /\ pc # "savefig"
    /\ failedAt' = pc
    /\ pc' = "failed"
    /\ exit' = 1
    /\ UNCHANGED <<script, y, x, fig, tickRange, files, trace, saveAttempts,
                   writes, rendered, completed, nruns>>

\* plt.savefig raises (an unwritable path, a full disk): the file is as it
\* was or holds an incomplete image, whichever the library's buffering gives.
RaiseSave ==
    /\ pc = "savefig"
    /\ saveAttempts' = saveAttempts + 1
    /\ \E left \in {files[FileName(script)], PartialFile(script)} :
         files' = [files EXCEPT ![FileName(script)] = left]
    /\ failedAt' = pc
    /\ pc' = "failed"
    /\ exit' = 1
    /\ UNCHANGED <<script, y, x, fig, tickRange, trace, writes, rendered,
                   completed, nruns>>

\* The statements of a run, without its failures.
Step ==
    \/ PltFigure
    \/ AssignY
    \/ AssignX
    \/ PltBar
    \/ PltTitle
    \/ PltXlabel
    \/ PltYlabel
    \/ PltXticks
    \/ PltTightLayout
    \/ PltSavefig

Next ==
    \/ \E s \in Scripts : Start(s)
    \/ PltFigure
    \/ AssignY
    \/ AssignX
    \/ PltBar
    \/ PltTitle
    \/ PltXlabel
    \/ PltYlabel
    \/ PltXticks
    \/ PltTightLayout
    \/ PltSavefig
    \/ Raise
    \/ RaiseSave

Spec == Init /\ [][Next]_vars

\* The interpreter keeps executing: a statement that can run either returns
\* or raises.
FairSpec == Init /\ [][Next]_vars /\ WF_vars(Step \/ Raise \/ RaiseSave)

----------------------------------------------------------------------------
\* Helpers of the properties.

RECURSIVE SumSeq(_)
SumSeq(seq) == IF seq = <<>> THEN 0 ELSE Head(seq) + SumSeq(Tail(seq))

Range(seq) == {seq[i] : i \in 1..Len(seq)}

IsPrefix(p, q) == Len(p) <= Len(q) /\ p = SubSeq(q, 1, Len(p))

\* This run has completed the statement `step`.
Ran(step) == pc # "idle" /\ step \in Range(trace)

Heights(bars) == [i \in 1..Len(bars) |-> bars[i].height]

----------------------------------------------------------------------------
\* C1 (as stated): once a script has drawn its bars, their number is the
\* length of its literal dataset, and that length is 61 for the class-name
\* characters, 12 for the subpackages, 13 for the words and 69 for the
\* package-name characters.
C1_Original ==
    Ran("bar") =>
      /\ Len(fig.bars) = Len(Y(script))
      /\ Len(Y(script)) = CASE script = CharClass -> 61
                            [] script = Subpackages -> 12
                            [] script = Words -> 13
                            [] script = CharPackage -> 69

\* C1 (amended): once a script has drawn its bars, their number is the length
\* of its literal dataset (and of its variable y), and that length is 62 for
\* the class-name characters, 12 for the subpackages, 13 for the words and 70
\* for the package-name characters.
C1_BarCount ==
    Ran("bar") =>
      /\ Len(fig.bars) = Len(Y(script))
      /\ Len(fig.bars) = Len(y)
      /\ Len(Y(script)) = CASE script = CharClass -> 62
                            [] script = Subpackages -> 12
                            [] script = Words -> 13
                            [] script = CharPackage -> 70

C1_Witness ==
    /\ script = CharPackage
    /\ pc = "done"
    /\ Len(fig.bars) = 70
    /\ files[FileName(CharPackage)].complete
    /\ Len(files[FileName(CharPackage)].image.bars) = 70

\* C2: the index sequence x is 1, 2, ..., len(y); the bar at position i has
\* height y[i], taken from the literal unchanged and in order; so the
\* heights sum to the sum of the literal.
C2_Positional ==
    /\ Ran("x") => x = [i \in 1..Len(Y(script)) |-> i]
    /\ Ran("bar") =>
         /\ Len(fig.bars) = Len(Y(script))
         /\ \A i \in 1..Len(fig.bars) :
              /\ fig.bars[i].pos = i
              /\ fig.bars[i].height = Y(script)[i]
         /\ Heights(fig.bars) = Y(script)
         /\ SumSeq(Heights(fig.bars)) = SumSeq(Y(script))

C2_Witness ==
    /\ script = CharClass
    /\ pc = "done"
    /\ fig.bars[62].pos = 62
    /\ fig.bars[62].height = 124
    /\ SumSeq(Heights(fig.bars)) = 1368878

\* C3: once the ticks are set, the first is 1, consecutive ticks differ by
\* the script's stride (3, 1, 1, 5), every tick is a bucket index 1..len(y)
\* and the last does not exceed len(y).
C3_Ticks ==
    Ran("xticks") =>
      LET t == fig.ticks
          stride == CASE script = CharClass -> 3
                      [] script = Subpackages -> 1
                      [] script = Words -> 1
                      [] script = CharPackage -> 5
      IN  /\ Len(t) > 0
          /\ t[1] = 1
          /\ \A i \in 1..(Len(t) - 1) : t[i + 1] - t[i] = stride
          /\ \A i \in 1..Len(t) : t[i] \in 1..Len(y)
          /\ t[Len(t)] <= Len(y)
          /\ tickRange.start = 1
          /\ tickRange.step = stride

C3_Witness ==
    /\ script = CharPackage
    /\ Ran("xticks")
    /\ Len(fig.ticks) = 14
    /\ fig.ticks[14] = 66

\* C4: the class-name-character script, and it alone, passes len(x) - 1 as
\* the exclusive upper bound of its tick range; the other three pass
\* len(x) + 1, so its bound is two short of theirs.
C4_TickBound ==
    /\ Ran("xticks") =>
         /\ script = CharClass => tickRange.stop = Len(x) - 1
         /\ script # CharClass => tickRange.stop = Len(x) + 1
         /\ script = CharClass => (Len(x) + 1) - tickRange.stop = 2
    /\ {s \in Scripts : TickStop(s, Len(Y(s))) = Len(Y(s)) - 1} = {CharClass}
    /\ \A s \in Scripts \ {CharClass} : TickStop(s, Len(Y(s))) = Len(Y(s)) + 1

C4_Witness ==
    /\ script = CharClass
    /\ Ran("xticks")
    /\ Len(x) = 62
    /\ tickRange.stop = 61

\* C5: a finished run of the subpackage script has drawn exactly 12 bars, at
\* positions 1..12, with heights 13504, 25659, 4542, 1474, 26158, 14924,
\* 9174, 2318, 926, 254, 83, 82 in this order, x label "Subpackages in class
\* names", y label "Occurrences", title "Number of Subpackages in Class
\* Names"; and this is the image it saved.
C5_Subpackages ==
    (script = Subpackages /\ pc = "done") =>
      /\ Len(fig.bars) = 12
      /\ [i \in 1..Len(fig.bars) |-> fig.bars[i].pos]
           = <<1, 2, 3, 4, 5, 6, 7, 8, 9, 10, 11, 12>>
      /\ Heights(fig.bars)
           = <<13504, 25659, 4542, 1474, 26158, 14924, 9174, 2318, 926, 254,
               83, 82>>
      /\ fig.xlabel = "Subpackages in class names"
      /\ fig.ylabel = "Occurrences"
      /\ fig.title = "Number of Subpackages in Class Names"
      /\ files["numberOfSubpackagesInClassNames.svg"].image = fig

C5_Witness ==
    /\ script = Subpackages
    /\ pc = "done"
    /\ Len(fig.bars) = 12
    /\ fig.bars[12].height = 82

\* C6: a successful run has written exactly one file, the one with its
\* script's fixed name, and that file then exists and holds the run's
\* figure; no run writes twice; the four names are pairwise distinct; and
\* whatever a file holds was put there by the script the name belongs to.
C6_OutputFile ==
    /\ pc = "done" =>
         /\ writes = <<FileName(script)>>
         /\ FileName(script) =
              CASE script = CharClass -> "numberOfCharacterInClassNames.svg"
                [] script = Subpackages -> "numberOfSubpackagesInClassNames.svg"
                [] script = Words -> "numberOfWordsInClassNames.svg"
                [] script = CharPackage -> "numberOfCharactersInPackageNames.svg"
         /\ files[FileName(script)] =
              [by |-> script, complete |-> TRUE, image |-> fig]
    /\ Len(writes) <= 1
    /\ Ran("savefig") <=> writes # <<>>
    /\ \A s1, s2 \in Scripts : s1 # s2 => FileName(s1) # FileName(s2)
    /\ \A s \in Scripts :
         /\ files[FileName(s)].by \in {"none", s}
         /\ completed[s] > 0 => files[FileName(s)].by = s

C6_Witness ==
    /\ pc = "done"
    /\ script = Words
    /\ writes = <<"numberOfWordsInClassNames.svg">>
    /\ files["numberOfWordsInClassNames.svg"].complete
    /\ files["numberOfSubpackagesInClassNames.svg"].complete
    /\ files["numberOfSubpackagesInClassNames.svg"].by = Subpackages

\* C7: a statement that raised is never caught or retried.  The run is then
\* failed with exit status 1, it completed exactly the statements before the
\* one that raised and none after, it attempted a save only if the save is
\* what raised, and then only once.  Exit status 0 means every statement of
\* the script, the save included, completed and none raised.
C7_Propagation ==
    /\ failedAt # "none" => pc = "failed"
    /\ pc = "failed" =>
         /\ exit = 1
         /\ failedAt \in Range(Program)
         /\ trace = SubSeq(Program, 1, IndexOf(Program, failedAt, 1) - 1)
         /\ failedAt \notin Range(trace)
         /\ saveAttempts = IF failedAt = "savefig" THEN 1 ELSE 0
         /\ writes = <<>>
    /\ exit = 1 <=> pc = "failed"
    /\ exit = 0 <=> pc = "done"
    /\ pc = "done" =>
         /\ failedAt = "none"
         /\ Range(trace) = Range(Program)
         /\ Len(trace) = Len(Program)
         /\ trace[Len(trace)] = "savefig"
         /\ saveAttempts = 1
    /\ saveAttempts <= 1

C7_Witness ==
    /\ pc = "failed"
    /\ failedAt = "savefig"
    /\ exit = 1
    /\ saveAttempts = 1
    /\ files[FileName(script)] = PartialFile(script)
    /\ nruns = 1

\* The order C8 states, over the statements it names (the layout call, which
\* it does not name, is left out).
ClaimedOrder ==
    <<"y", "x", "figure", "bar", "title", "xlabel", "ylabel", "xticks",
      "savefig">>

\* The order of the source.
SourceOrder ==
    <<"figure", "y", "x", "bar", "title", "xlabel", "ylabel", "xticks",
      "tight_layout", "savefig">>

\* C8 (as stated): the statements run in the order dataset, index sequence,
\* canvas, bars, title, labels, ticks, save.
C8_Original ==
    IsPrefix(SelectSeq(trace, LAMBDA s : s # "tight_layout"), ClaimedOrder)

\* C8 (amended): a run is one straight line without branching, in the order
\* canvas, dataset, index sequence, bars, title, x label, y label, ticks,
\* layout, save: what has run is always an initial part of that order and
\* what runs next is the statement after it, the save being the last; and
\* every run terminates.
C8_StraightLine ==
    /\ [](/\ IsPrefix(trace, SourceOrder)
          /\ pc \notin Terminal => pc = SourceOrder[Len(trace) + 1]
          /\ pc = "done" => trace = SourceOrder)
    /\ [](pc \notin Terminal => <>(pc \in {"done", "failed"}))

C8_Witness ==
    /\ pc = "done"
    /\ trace = SourceOrder
    /\ trace[1] = "figure"
    /\ trace[10] = "savefig"

C10_TickCoverage ==
    Ran("xticks") =>
      /\ script \in {Subpackages, Words} => Range(fig.ticks) = 1..Len(y)
      /\ script \in {Subpackages, Words} => Len(fig.ticks) = Len(y)
      /\ script \in {CharClass, CharPackage} => Len(y) \notin Range(fig.ticks)
      /\ script = CharClass => fig.ticks = [i \in 1..20 |-> 3 * i - 2]
      /\ script = CharPackage => fig.ticks = [i \in 1..14 |-> 5 * i - 4]
      /\ script = CharClass =>
           ARange(tickRange.start, Len(x) + 1, tickRange.step)
             = Append(fig.ticks, 61)

C10_Witness ==
    /\ script = CharClass
    /\ Ran("xticks")
    /\ Len(fig.ticks) = 20
    /\ fig.ticks[20] = 58
    /\ Len(y) = 62

====
